---- MODULE Spec2Model ----
(***************************************************************************)
(* Billing tracker: payments, invoices with line items and the dashboard   *)
(* aggregation, modelled from the page components and the database          *)
(* migrations.                                                              *)
(*                                                                          *)
(* Units.  Payment amounts are whole cents (payments.amount is              *)
(* decimal(10, 2)).  Binary floating point drift of the JavaScript sums is  *)
(* not modelled: sums are exact.                                            *)
(***************************************************************************)
EXTENDS Integers, Sequences, FiniteSets, TLC

(***************************************************************************)
(* Bounds of the model.                                                     *)
(***************************************************************************)
\* longest freely chosen payment snapshot handed to the aggregation
MaxFree == 2
\* longest run of consecutive calendar months in a snapshot
MaxRun == 7
\* longest run of consecutive calendar days in a snapshot
MaxDayRun == 31

(***************************************************************************)
(* Calendar dates.  A date column value 'YYYY-MM-DD' is the record          *)
(* [y, m, d]; SQL NULL is NullDate.                                          *)
(***************************************************************************)
NullDate == [y |-> 0, m |-> 0, d |-> 0]

MonthAbbr == <<"Jan", "Feb", "Mar", "Apr", "May", "Jun",
               "Jul", "Aug", "Sep", "Oct", "Nov", "Dec">>

\* date-fns parseISO of a date-only string: local midnight of that day
parseISO(s) == [year |-> s.y, month |-> s.m, date |-> s.d]

\* date-fns startOfMonth: the first day of the date's month
startOfMonth(dt) == [dt EXCEPT !.date = 1]

\* date-fns format(dt, "MMM yyyy"): abbreviated month name and year
formatMMMyyyy(dt) == <<MonthAbbr[dt.month], dt.year>>

\* date-fns format(dt, "MMM dd"): abbreviated month name and day of month
formatMMMdd(dt) == <<MonthAbbr[dt.month], dt.date>>

(***************************************************************************)
(* State.                                                                   *)
(***************************************************************************)
VARIABLES
    \* Dashboard.tsx: the JavaScript engine's Date parser accepts the
    \* non-ISO text "MMM yyyy" (implementation-defined in ECMAScript)
    engineParsesMonthLabel,
    \* the payments query result: data is null when the query failed
    paymentsResult,
    \* Dashboard.tsx component state
    stats, chartData, dashLoaded,
    \* ClientDetail.tsx component state: the loaded payment list
    payments, loading

VARIABLES
    \* the clock, in days
    now,
    \* public.payments, a function from id to row
    paymentsTable, nextPaymentId,
    \* ClientDetail.tsx component state
    paymentForm, editingPayment, paymentDialogOpen,
    \* history: the ids of the payments that have been paid at some time
    everPaid,
    \* public.clients: the ids of its rows
    clientsTable,
    \* public.documents, a function from id to row
    documentsTable, nextDocumentId,
    \* whether the store refused the last request made of it directly
    requestError,
    \* ClientDetail.tsx: const { id } = useParams()
    routeId,
    \* ClientDetail.tsx component state: the client row (its id) or null, the
    \* document list, the file chosen for upload in the payment dialog
    client, documents, invoiceFile,
    \* the loadClientData calls in flight, in the order they were made
    loadCalls

VARIABLES
    \* public.invoices, a function from id to row, and public.invoice_items,
    \* a function from invoice_id to the rows of that invoice
    invoicesTable, invoiceItemsTable, nextInvoiceId,
    \* Invoices.tsx component state
    invoiceForm, items, editingInvoice, dialogOpen,
    \* the handleSubmit call in flight: its position, what it captured, and
    \* (history) what the invoice held before an update
    submit

VARIABLES
    \* the rows of public.payments, documents, expenses and invoices of all
    \* accounts, a function from id to row; each row names its table
    db

ownVars == <<db>>

\* the dashboard state without the payment list of the client page
dashOnly == <<engineParsesMonthLabel, paymentsResult, stats, chartData,
              dashLoaded>>

dashVars == <<dashOnly, payments, loading>>

\* the clients and documents tables
storeVars == <<clientsTable, documentsTable, nextDocumentId, requestError>>

\* the payment dialog
formVars == <<paymentForm, editingPayment, paymentDialogOpen, invoiceFile>>

\* what loadClientData sets, and its calls
loadVars == <<payments, loading, client, documents, loadCalls>>

payVars == <<now, paymentsTable, nextPaymentId, paymentForm, editingPayment,
             paymentDialogOpen, everPaid, storeVars, routeId,
             client, documents, invoiceFile, loadCalls>>

invVars == <<invoicesTable, invoiceItemsTable, nextInvoiceId, invoiceForm, items,
             editingInvoice, dialogOpen, submit>>

(***************************************************************************)
(* JavaScript helpers.                                                      *)
(***************************************************************************)
\* paymentsResult.data || []
dataOrEmpty(result) == IF result.isNull THEN <<>> ELSE result.data

\* Array.prototype.filter with the predicate p.status === "paid"
filterPaid(ps) == SelectSeq(ps, LAMBDA p : p.status = "paid")

\* Mutant of filterOutstanding: overdue payments are forgotten
filterOutstanding_pendingOnly(ps) == SelectSeq(ps, LAMBDA p : p.status = "pending")

\* Array.prototype.filter with p.status === "pending" || p.status === "overdue"
filterOutstanding(ps) ==
    SelectSeq(ps, LAMBDA p : p.status = "pending" \/ p.status = "overdue")

\* .reduce((sum, p) => sum + Number(p.amount), 0)
RECURSIVE reduceAmount(_, _)
reduceAmount(ps, sum) ==
    IF ps = <<>> THEN sum
    ELSE reduceAmount(SubSeq(ps, 1, Len(ps) - 1), sum) + ps[Len(ps)].amount

\* A JavaScript Map keeps its keys in insertion order; set() on a present
\* key replaces the value in place.
MapHas(map, k) == \E i \in 1..Len(map) : map[i].key = k

MapGet(map, k) == map[CHOOSE i \in 1..Len(map) : map[i].key = k].value

MapSet(map, k, v) ==
    IF MapHas(map, k)
    THEN LET at == CHOOSE i \in 1..Len(map) : map[i].key = k
         IN  SubSeq(map, 1, at - 1) \o <<[key |-> k, value |-> v]>>
                \o SubSeq(map, at + 1, Len(map))
    ELSE Append(map, [key |-> k, value |-> v])

\* Array.prototype.slice(-n): the last n elements
sliceLast(arr, n) ==
    IF Len(arr) <= n THEN arr ELSE SubSeq(arr, Len(arr) - n + 1, Len(arr))

MonthIndex(abbr) == CHOOSE i \in 1..12 : MonthAbbr[i] = abbr

\* new Date(label).getTime() for a label "MMM yyyy".  The text is not in the
\* ECMAScript date-time format, so the result is implementation-defined: an
\* engine whose parser accepts it gives the first instant of that month
\* (measured here in months), any other gives NaN.
newDateGetTime(label) ==
    IF engineParsesMonthLabel
    THEN [nan |-> FALSE, t |-> label[2] * 12 + MonthIndex(label[1])]
    ELSE [nan |-> TRUE, t |-> 0]

\* (a, b) => new Date(a.month).getTime() - new Date(b.month).getTime();
\* Array.prototype.sort reads a NaN result as +0
compareMonth(a, b) ==
    LET ta == newDateGetTime(a.month)
        tb == newDateGetTime(b.month)
    IN  IF ta.nan \/ tb.nan THEN 0 ELSE ta.t - tb.t

\* Array.prototype.sort is stable: an element moves left only past the
\* elements that compare greater
RECURSIVE insertSorted(_, _)
insertSorted(arr, x) ==
    IF arr = <<>> THEN <<x>>
    ELSE IF compareMonth(arr[Len(arr)], x) > 0
         THEN Append(insertSorted(SubSeq(arr, 1, Len(arr) - 1), x), arr[Len(arr)])
         ELSE Append(arr, x)

RECURSIVE sortByMonth(_)
sortByMonth(arr) ==
    IF arr = <<>> THEN <<>>
    ELSE insertSorted(sortByMonth(SubSeq(arr, 1, Len(arr) - 1)), arr[Len(arr)])

(***************************************************************************)
(* Dashboard.tsx: loadStats and processChartData.                           *)
(***************************************************************************)
\* slice(-6) of the monthly series, slice(-30) of the timeline
MonthlyWindow == 6
TimelineWindow == 30

\* Mutant of totalPaidOf: the sum starts from the total of the run before
totalPaidOf_carriedOver(ps) == reduceAmount(filterPaid(ps), stats.totalPaid)

totalPaidOf(ps) == reduceAmount(filterPaid(ps), 0)

totalPendingOf(ps) == reduceAmount(filterOutstanding(ps), 0)

\* the if / else if chain on payment.status
addStatusCount(statusCount, payment) ==
    IF payment.status = "paid"
    THEN [statusCount EXCEPT !.paid = @ + payment.amount]
    ELSE IF payment.status = "pending"
    THEN [statusCount EXCEPT !.pending = @ + payment.amount]
    ELSE IF payment.status = "overdue"
    THEN [statusCount EXCEPT !.overdue = @ + payment.amount]
    ELSE statusCount

\* Mutant of isPaidWithDate: the status is not looked at
isPaidWithDate_anyStatus(payment) == payment.paid_date # NullDate

\* payment.status === "paid" && payment.paid_date
isPaidWithDate(payment) ==
    payment.status = "paid" /\ payment.paid_date # NullDate

\* Mutant of monthKey: the year is left out of the key
monthKey_noYear(payment) ==
    <<MonthAbbr[parseISO(payment.paid_date).month], 0>>

\* format(startOfMonth(parseISO(payment.paid_date)), "MMM yyyy")
monthKey(payment) == formatMMMyyyy(startOfMonth(parseISO(payment.paid_date)))

\* Mutant of dateKey: the year is part of the key
dateKey_withYear(payment) ==
    <<MonthAbbr[parseISO(payment.paid_date).month],
      parseISO(payment.paid_date).year * 100 + parseISO(payment.paid_date).date>>

\* format(parseISO(payment.paid_date), "MMM dd")
dateKey(payment) == formatMMMdd(parseISO(payment.paid_date))

addMonthly(monthlyMap, payment) ==
    LET existing == IF MapHas(monthlyMap, monthKey(payment))
                    THEN MapGet(monthlyMap, monthKey(payment))
                    ELSE [revenue |-> 0, count |-> 0]
    IN  MapSet(monthlyMap, monthKey(payment),
               [revenue |-> existing.revenue + payment.amount,
                count |-> existing.count + 1])

addTimeline(timelineMap, payment) ==
    MapSet(timelineMap, dateKey(payment),
           (IF MapHas(timelineMap, dateKey(payment))
            THEN MapGet(timelineMap, dateKey(payment)) ELSE 0) + payment.amount)

\* Mutant of chartStep: a paid payment without paid_date is bucketed under a
\* fallback date
chartStep_fallbackDate(acc, payment) ==
    LET dated == IF payment.paid_date = NullDate
                 THEN [payment EXCEPT !.paid_date = [y |-> 2024, m |-> 1, d |-> 1]]
                 ELSE payment
    IN  [statusCount |-> addStatusCount(acc.statusCount, payment),
         monthlyMap  |-> IF payment.status = "paid"
                         THEN addMonthly(acc.monthlyMap, dated)
                         ELSE acc.monthlyMap,
         timelineMap |-> IF payment.status = "paid"
                         THEN addTimeline(acc.timelineMap, dated)
                         ELSE acc.timelineMap]

\* the body of payments.forEach
chartStep(acc, payment) ==
    [statusCount |-> addStatusCount(acc.statusCount, payment),
     monthlyMap  |-> IF isPaidWithDate(payment)
                     THEN addMonthly(acc.monthlyMap, payment)
                     ELSE acc.monthlyMap,
     timelineMap |-> IF isPaidWithDate(payment)
                     THEN addTimeline(acc.timelineMap, payment)
                     ELSE acc.timelineMap]

\* the loop of forEach: the payments still to visit and the three
\* accumulators after the payments visited
RECURSIVE forEachLoop(_)
forEachLoop(st) ==
    IF st.rest = <<>> THEN st.acc
    ELSE forEachLoop([rest |-> Tail(st.rest),
                      acc  |-> chartStep(st.acc, Head(st.rest))])

forEachPayment(ps, acc) == forEachLoop([rest |-> ps, acc |-> acc])

chartMaps(ps) ==
    forEachPayment(ps, [statusCount |-> [paid |-> 0, pending |-> 0, overdue |-> 0],
                        monthlyMap  |-> <<>>,
                        timelineMap |-> <<>>])

\* Array.from(monthlyMap.entries()).map(...)
monthlyEntries(monthlyMap) ==
    [i \in 1..Len(monthlyMap) |->
        [month    |-> monthlyMap[i].key,
         revenue  |-> monthlyMap[i].value.revenue,
         payments |-> monthlyMap[i].value.count]]

monthlyOf(monthlyMap) ==
    sliceLast(sortByMonth(monthlyEntries(monthlyMap)), MonthlyWindow)

\* Mutant of timelineOf: the first buckets are kept instead of the last
timelineOf_firstBuckets(timelineMap) ==
    SubSeq([i \in 1..Len(timelineMap) |->
               [date |-> timelineMap[i].key, revenue |-> timelineMap[i].value]],
           1, IF Len(timelineMap) <= TimelineWindow THEN Len(timelineMap)
              ELSE TimelineWindow)

timelineOf(timelineMap) ==
    sliceLast([i \in 1..Len(timelineMap) |->
                  [date |-> timelineMap[i].key, revenue |-> timelineMap[i].value]],
              TimelineWindow)

\* Mutant of statusDistributionOf: zero sums are kept
statusDistributionOf_keepZero(statusCount) ==
    SelectSeq(<<[name |-> "Paid", value |-> statusCount.paid],
                [name |-> "Pending", value |-> statusCount.pending],
                [name |-> "Overdue", value |-> statusCount.overdue]>>,
              LAMBDA item : item.value >= 0)

statusDistributionOf(statusCount) ==
    SelectSeq(<<[name |-> "Paid", value |-> statusCount.paid],
                [name |-> "Pending", value |-> statusCount.pending],
                [name |-> "Overdue", value |-> statusCount.overdue]>>,
              LAMBDA item : item.value > 0)

processChartData(ps) ==
    LET acc == chartMaps(ps)
    IN  [monthly            |-> monthlyOf(acc.monthlyMap),
         timeline           |-> timelineOf(acc.timelineMap),
         statusDistribution |-> statusDistributionOf(acc.statusCount)]

(***************************************************************************)
(* ClientDetail.tsx: the per-client totals, computed on every render from   *)
(* the loaded payment list.                                                 *)
(***************************************************************************)
RECURSIVE clientReduce(_, _)
clientReduce(ps, sum) ==
    IF ps = <<>> THEN sum
    ELSE clientReduce(SubSeq(ps, 1, Len(ps) - 1), sum) + ps[Len(ps)].amount

\* Mutant of clientTotalPaid: the status filter is missing
clientTotalPaid_unfiltered == clientReduce(payments, 0)

clientTotalPaid ==
    clientReduce(SelectSeq(payments, LAMBDA p : p.status = "paid"), 0)

clientTotalPending ==
    clientReduce(SelectSeq(payments,
        LAMBDA p : p.status = "pending" \/ p.status = "overdue"), 0)

(***************************************************************************)
(* The payment snapshots handed to the aggregation.  A row is what the      *)
(* payments table can hold: status is one of the three checked values,      *)
(* amount is any decimal(10, 2), paid_date is a date or NULL.               *)
(***************************************************************************)
Statuses == {"paid", "pending", "overdue"}

Amounts == {-1, 0, 2}

FreeDates == {NullDate, [y |-> 2023, m |-> 3, d |-> 10],
                        [y |-> 2024, m |-> 3, d |-> 10]}

FreeRow == [amount : Amounts, status : Statuses, paid_date : FreeDates]

FreeSeqs(n) == UNION {[1..k -> FreeRow] : k \in 0..n}

\* the i-th month of the run that starts in August 2023
runDate(i) ==
    LET idx == 2023 * 12 + 7 + (i - 1)
    IN  [y |-> idx \div 12, m |-> (idx % 12) + 1, d |-> 1]

runRow(i) == [amount |-> 2, status |-> "paid", paid_date |-> runDate(i)]

\* a run of n paid payments in consecutive months: oldest first, newest
\* first, or rotated by one
RunSeq(n, order) ==
    [i \in 1..n |-> runRow(CASE order = "asc"  -> i
                             [] order = "desc" -> n + 1 - i
                             [] OTHER          -> (i % n) + 1)]

Runs == {RunSeq(n, order) : n \in 1..MaxRun, order \in {"asc", "desc", "rot"}}

\* the i-th day of the run that starts on 1 January 2024
dayDate(i) ==
    IF i <= 31 THEN [y |-> 2024, m |-> 1, d |-> i]
    ELSE [y |-> 2024, m |-> 2, d |-> i - 31]

dayRow(i) == [amount |-> 2, status |-> "paid", paid_date |-> dayDate(i)]

\* a run of n paid payments on consecutive days, in the orders of RunSeq
DayRunSeq(n, order) ==
    [i \in 1..n |-> dayRow(CASE order = "asc"  -> i
                             [] order = "desc" -> n + 1 - i
                             [] OTHER          -> (i % n) + 1)]

DayRuns ==
    {DayRunSeq(n, order) : n \in TimelineWindow..MaxDayRun,
                           order \in {"asc", "desc", "rot"}}

\* a payment of the year before on a day of the run, and one never paid
DayExtras ==
    {<<>>,
     <<[amount |-> 2, status |-> "paid", paid_date |-> [y |-> 2023, m |-> 1, d |-> 5]]>>,
     <<[amount |-> 2, status |-> "pending", paid_date |-> NullDate]>>}

Snapshots ==
    FreeSeqs(MaxFree)
    \cup {f \o r : f \in FreeSeqs(1), r \in Runs}
    \cup {r \o f : f \in FreeSeqs(1), r \in Runs}
    \cup {f \o r : f \in DayExtras, r \in DayRuns}
    \cup {r \o f : f \in DayExtras, r \in DayRuns}

DashInit ==
    /\ engineParsesMonthLabel \in BOOLEAN
    /\ paymentsResult \in
          {[isNull |-> FALSE, data |-> ps] : ps \in Snapshots}
          \cup {[isNull |-> TRUE, data |-> <<>>]}
    /\ stats = [totalPaid |-> 0, totalPending |-> 0]
    /\ chartData = [monthly |-> <<>>, timeline |-> <<>>, statusDistribution |-> <<>>]
    /\ dashLoaded = FALSE
    /\ payments = <<>>
    /\ loading = TRUE

\* Dashboard.tsx loadStats, with the processChartData call it ends in
loadStats ==
    LET ps == dataOrEmpty(paymentsResult)
    IN  /\ stats' = [totalPaid |-> totalPaidOf(ps), totalPending |-> totalPendingOf(ps)]
        /\ chartData' = processChartData(ps)
        /\ dashLoaded' = TRUE
        /\ UNCHANGED <<engineParsesMonthLabel, paymentsResult, payments, loading>>
        /\ UNCHANGED <<payVars, invVars, ownVars>>

\* ClientDetail.tsx loadClientData: setPayments(paymentsResult.data || [])
loadClientData ==
    /\ payments' = dataOrEmpty(paymentsResult)
    /\ loading' = FALSE
    /\ UNCHANGED <<engineParsesMonthLabel, paymentsResult, stats, chartData, dashLoaded>>
    /\ UNCHANGED <<payVars, invVars, ownVars>>

DashNext == loadStats \/ loadClientData

(***************************************************************************)
(* ClientDetail.tsx: the payment dialog and the payments table.             *)
(*                                                                          *)
(* The text of the amount field is the record [empty, milli]: the empty     *)
(* text, or a decimal numeral given by its value in thousandths.            *)
(***************************************************************************)
\* the last day the clock reaches
MaxDay == 2
\* the number of payment ids the table hands out
MaxPayments == 2
\* the number of document ids the table hands out
MaxDocuments == 1
\* the most loadClientData calls in flight at one time
MaxLoads == 2

\* public.clients: c1 is a client of A, c2 a client of B
ClientIds == {"c1", "c2"}

\* useParams() without an id parameter
NoId == ""

\* invoice_document_id NULL
NoDocument == 0

\* documents.client_id NULL
NullClient == "null"

\* useState<File | null>(null)
NoFile == "none"

\* e.target.files?.[0] of the file input
Files == {"invoice.pdf"}

\* useState<Payment | null>(null)
NoPayment == 0

EmptyText == [empty |-> TRUE, milli |-> 0]

\* "", "19.999", "-5.00" and "10.00"
AmountTexts == {EmptyText, [empty |-> FALSE, milli |-> 19999],
                [empty |-> FALSE, milli |-> -5000], [empty |-> FALSE, milli |-> 10000]}

\* the due date goes from the form to the row as it is and nothing reads
\* it: the field is left empty
DueDateTexts == {NullDate}

\* parseFloat of the amount text, in thousandths
parseFloat(text) == text.milli

\* payment.amount.toString(): the numeral of an amount held in cents
amountToString(cents) == [empty |-> FALSE, milli |-> cents * 10]

\* the column type decimal(10, 2) rounds to whole cents, half away from zero
decimal_10_2(milli) ==
    IF milli >= 0 THEN (milli + 5) \div 10 ELSE -((5 - milli) \div 10)

\* new Date().toISOString().split("T")[0]
isoDate(t) == [y |-> 2024, m |-> 3, d |-> 9 + t]

\* { amount: "", status: "pending", description: "", due_date: "", ... }
emptyPaymentForm ==
    [amount |-> EmptyText, status |-> "pending", due_date |-> NullDate,
     invoice_document_id |-> NoDocument]

\* Mutant of paidDateOf: the date is stamped whatever the status
paidDateOf_always(status) == isoDate(now)

\* paymentForm.status === "paid" ? new Date().toISOString().split("T")[0] : null
paidDateOf(status) == IF status = "paid" THEN isoDate(now) ELSE NullDate

\* the column values of the update and, with client_id: id, of the insert
paymentValues(invoiceDocId) ==
    [amount    |-> decimal_10_2(parseFloat(paymentForm.amount)),
     status    |-> paymentForm.status,
     due_date  |-> paymentForm.due_date,
     paid_date |-> paidDateOf(paymentForm.status),
     invoice_document_id |-> invoiceDocId]

withId(values, id, client_id) ==
    [id |-> id, client_id |-> client_id,
     amount |-> values.amount, status |-> values.status,
     due_date |-> values.due_date, paid_date |-> values.paid_date,
     invoice_document_id |-> values.invoice_document_id]

\* the payments table without its status check
paymentsConstraints_noCheck(values, client_id, docs) ==
    /\ client_id \in clientsTable
    /\ values.invoice_document_id \in {NoDocument} \cup DOMAIN docs

\* public.payments: check (status in ('paid', 'pending', 'overdue')),
\* client_id references clients(id), invoice_document_id references
\* documents(id).  A row that fails one of them is refused.
paymentsConstraints(values, client_id, docs) ==
    /\ values.status \in Statuses
    /\ client_id \in clientsTable
    /\ values.invoice_document_id \in {NoDocument} \cup DOMAIN docs

\* .update({...}).eq("id", editingPayment.id): client_id is not among the
\* values
updatePayment(table, id, values) ==
    [i \in DOMAIN table |->
        IF i = id THEN withId(values, i, table[i].client_id) ELSE table[i]]

\* .insert({client_id: id, ...}): the table gives the row its id
insertPayment(table, id, values, client_id) ==
    [i \in DOMAIN table \cup {id} |->
        IF i = id THEN withId(values, i, client_id) ELSE table[i]]

\* .delete().eq("id", paymentId)
deletePayment(table, id) == [i \in DOMAIN table \ {id} |-> table[i]]

\* select("*").eq("client_id", id).order("created_at", { ascending: false })
RECURSIVE selectPayments(_, _)
selectPayments(table, ids) ==
    IF ids = {} THEN <<>>
    ELSE LET newest == CHOOSE i \in ids : \A j \in ids : j <= i
         IN  <<table[newest]>> \o selectPayments(table, ids \ {newest})

\* the ids of the payments of one client
paymentsOf(table, client_id) == {i \in DOMAIN table : table[i].client_id = client_id}

\* from("documents").select("*").eq("client_id", id): the rows, as a set
selectDocuments(docs, client_id) ==
    {docs[d] : d \in {e \in DOMAIN docs : docs[e].client_id = client_id}}

\* .from("documents").insert({client_id: id, ...}).select().single(): the
\* table gives the row its id
insertDocument(docs, id, client_id) ==
    [d \in DOMAIN docs \cup {id} |->
        IF d = id THEN [id |-> id, client_id |-> client_id] ELSE docs[d]]

\* public.documents: client_id references clients(id), and since
\* ALTER COLUMN client_id DROP NOT NULL it may be null
documentsConstraints(client_id) == client_id \in clientsTable \cup {NullClient}

\* Mutant of setNullDocument: the payments keep the deleted document's id
setNullDocument_keep(table, gone) == table

\* invoice_document_id references documents(id) ON DELETE SET NULL
setNullDocument(table, gone) ==
    [i \in DOMAIN table |->
        IF table[i].invoice_document_id \in gone
        THEN [table[i] EXCEPT !.invoice_document_id = NoDocument]
        ELSE table[i]]

\* .from("documents").delete().eq("id", docId)
deleteDocument(docs, id) == [d \in DOMAIN docs \ {id} |-> docs[d]]

\* Mutant of cascadeClient: the client's payments and documents stay
cascadeClient_none(table, client_id) == table

\* client_id references clients(id) ON DELETE CASCADE, of payments and of
\* documents alike
cascadeClient(table, client_id) ==
    [i \in {j \in DOMAIN table : table[j].client_id # client_id} |-> table[i]]

\* a loadClientData call that waits for supabase.auth.getUser()
newLoadCall ==
    [pc |-> "getUser", ok |-> FALSE, payments |-> <<>>, documents |-> {},
     superseded |-> FALSE]

\* loadClientData(), up to its first await: if (!id) return; comes before
\* the try, so that call is over at once and its finally never runs
callLoadClientData(calls) ==
    IF routeId = NoId THEN calls ELSE Append(calls, newLoadCall)

\* the calls left when call k is over; applied tells whether it has set the
\* lists, which every older call still in flight is then behind
completeCall(calls, k, applied) ==
    [i \in 1..(Len(calls) - 1) |->
        IF i < k THEN [calls[i] EXCEPT !.superseded = @ \/ applied]
        ELSE calls[i + 1]]

\* if (loading) return <div>Loading...</div>;
\* if (!client) return <div>Client not found</div>;
pageShown == ~loading /\ client # NoId

PayInit ==
    /\ now = 1
    /\ paymentsTable = <<>>
    /\ nextPaymentId = 1
    /\ paymentForm = emptyPaymentForm
    /\ editingPayment = NoPayment
    /\ paymentDialogOpen = FALSE
    /\ everPaid = {}
    /\ clientsTable = {"c1"}
    /\ documentsTable = <<>>
    /\ nextDocumentId = 1
    /\ requestError = "none"
    /\ routeId = "c1"
    /\ client = NoId
    /\ documents = {}
    /\ invoiceFile = NoFile
    \* useEffect(() => { loadClientData(); }, [id])
    /\ loadCalls = callLoadClientData(<<>>)

\* supabase.auth.getUser() has answered with a user: the three queries go
\* out
loadClientData_getUser ==
    /\ \E k \in 1..Len(loadCalls) :
          /\ loadCalls[k].pc = "getUser"
          /\ loadCalls' = [loadCalls EXCEPT ![k].pc = "queries"]
    /\ UNCHANGED <<payments, loading, client, documents>>
    /\ UNCHANGED <<now, paymentsTable, nextPaymentId, everPaid, formVars,
                   storeVars, routeId>>
    /\ UNCHANGED <<dashOnly, invVars, ownVars>>

\* supabase.auth.getUser() has answered without a user: if (!user) return;
\* inside the try, and the finally runs
loadClientData_noUser ==
    /\ \E k \in 1..Len(loadCalls) :
          /\ loadCalls[k].pc = "getUser"
          /\ loadCalls' = completeCall(loadCalls, k, FALSE)
    /\ loading' = FALSE
    /\ UNCHANGED <<payments, client, documents>>
    /\ UNCHANGED <<now, paymentsTable, nextPaymentId, everPaid, formVars,
                   storeVars, routeId>>
    /\ UNCHANGED <<dashOnly, invVars, ownVars>>

\* what the three queries of Promise.all come to when the store answers
\* them now: .single() of the client errs when there is no such row, and
\* paymentsResult.data is null when the payments query failed
queryResults(call, clientError, paymentsError) ==
    [pc |-> "response",
     ok |-> routeId \in clientsTable /\ ~clientError,
     payments |->
        IF paymentsError THEN <<>>
        ELSE selectPayments(paymentsTable, paymentsOf(paymentsTable, routeId)),
     documents |-> selectDocuments(documentsTable, routeId),
     superseded |-> call.superseded]

\* the store answers the three queries
loadClientData_queries ==
    /\ \E k \in 1..Len(loadCalls) :
          /\ loadCalls[k].pc = "queries"
          /\ loadCalls' = [loadCalls EXCEPT ![k] = queryResults(@, FALSE, FALSE)]
    /\ UNCHANGED <<payments, loading, client, documents>>
    /\ UNCHANGED <<now, paymentsTable, nextPaymentId, everPaid, formVars,
                   storeVars, routeId>>
    /\ UNCHANGED <<dashOnly, invVars, ownVars>>

\* the client query or the payments query fails on its way
loadClientData_queryError ==
    /\ \E k \in 1..Len(loadCalls) :
          /\ loadCalls[k].pc = "queries"
          /\ \E clientError, paymentsError \in BOOLEAN :
                /\ clientError \/ paymentsError
                /\ loadCalls' =
                      [loadCalls EXCEPT
                          ![k] = queryResults(@, clientError, paymentsError)]
    /\ UNCHANGED <<payments, loading, client, documents>>
    /\ UNCHANGED <<now, paymentsTable, nextPaymentId, everPaid, formVars,
                   storeVars, routeId>>
    /\ UNCHANGED <<dashOnly, invVars, ownVars>>

\* the rest of call k after await Promise.all: throw on clientResult.error
\* (the catch shows a toast), else setClient, setPayments, setDocuments; the
\* finally sets loading to false
loadClientData_then(k) ==
    /\ k \in 1..Len(loadCalls)
    /\ loadCalls[k].pc = "response"
    /\ IF loadCalls[k].ok
       THEN /\ client' = routeId
            /\ payments' = loadCalls[k].payments
            /\ documents' = loadCalls[k].documents
       ELSE UNCHANGED <<client, payments, documents>>
    /\ loading' = FALSE
    /\ loadCalls' = completeCall(loadCalls, k, loadCalls[k].ok)
    /\ UNCHANGED <<now, paymentsTable, nextPaymentId, everPaid, formVars,
                   storeVars, routeId>>
    /\ UNCHANGED <<dashOnly, invVars, ownVars>>

\* the answers arrive in any order
loadClientData_response == \E k \in 1..Len(loadCalls) : loadClientData_then(k)

\* a day passes
Tick ==
    /\ now < MaxDay
    /\ now' = now + 1
    /\ UNCHANGED <<paymentsTable, nextPaymentId, everPaid, formVars, loadVars,
                   storeVars, routeId>>
    /\ UNCHANGED <<dashOnly, invVars, ownVars>>

\* the Add Payment button: onOpenChange(true)
openPaymentDialog ==
    /\ pageShown
    /\ ~paymentDialogOpen
    /\ paymentDialogOpen' = TRUE
    /\ UNCHANGED <<paymentForm, editingPayment, invoiceFile>>
    /\ UNCHANGED <<now, paymentsTable, nextPaymentId, everPaid, loadVars,
                   storeVars, routeId>>
    /\ UNCHANGED <<dashOnly, invVars, ownVars>>

\* onOpenChange(false)
closePaymentDialog ==
    /\ paymentDialogOpen
    /\ paymentDialogOpen' = FALSE
    /\ editingPayment' = NoPayment
    /\ invoiceFile' = NoFile
    /\ paymentForm' = emptyPaymentForm
    /\ UNCHANGED <<now, paymentsTable, nextPaymentId, everPaid, loadVars,
                   storeVars, routeId>>
    /\ UNCHANGED <<dashOnly, invVars, ownVars>>

\* the onChange handlers of the amount, status and due date fields, for
\* the texts, statuses and dates given
setPaymentFormTo(amounts, statuses, dates) ==
    /\ paymentDialogOpen
    /\ \/ \E a \in amounts : paymentForm' = [paymentForm EXCEPT !.amount = a]
       \/ \E st \in statuses : paymentForm' = [paymentForm EXCEPT !.status = st]
       \/ \E d \in dates : paymentForm' = [paymentForm EXCEPT !.due_date = d]
    /\ UNCHANGED <<editingPayment, paymentDialogOpen, invoiceFile>>
    /\ UNCHANGED <<now, paymentsTable, nextPaymentId, everPaid, loadVars,
                   storeVars, routeId>>
    /\ UNCHANGED <<dashOnly, invVars, ownVars>>

setPaymentForm == setPaymentFormTo(AmountTexts, Statuses, DueDateTexts)

\* Mutant of withInvoiceFile: the chosen document stays in the form
withInvoiceFile_keep(form) == form

\* setPaymentForm({ ...paymentForm, invoice_document_id: "" }) of the file
\* input
withInvoiceFile(form) == [form EXCEPT !.invoice_document_id = NoDocument]

\* onChange of the file input of the payment dialog, with a file chosen
setInvoiceFile ==
    /\ paymentDialogOpen
    /\ \E file \in Files : invoiceFile' = file
    /\ paymentForm' = withInvoiceFile(paymentForm)
    /\ UNCHANGED <<editingPayment, paymentDialogOpen>>
    /\ UNCHANGED <<now, paymentsTable, nextPaymentId, everPaid, loadVars,
                   storeVars, routeId>>
    /\ UNCHANGED <<dashOnly, invVars, ownVars>>

\* the Clear file button, shown when invoiceFile is set
clearInvoiceFile ==
    /\ paymentDialogOpen
    /\ invoiceFile # NoFile
    /\ invoiceFile' = NoFile
    /\ UNCHANGED <<paymentForm, editingPayment, paymentDialogOpen>>
    /\ UNCHANGED <<now, paymentsTable, nextPaymentId, everPaid, loadVars,
                   storeVars, routeId>>
    /\ UNCHANGED <<dashOnly, invVars, ownVars>>

\* the select of an existing document, shown when
\* !invoiceFile && documents.length > 0, and its Clear selection button
setInvoiceDocument ==
    /\ paymentDialogOpen
    /\ \/ /\ invoiceFile = NoFile
          /\ \E doc \in documents :
                paymentForm' = [paymentForm EXCEPT !.invoice_document_id = doc.id]
       \/ /\ invoiceFile = NoFile
          /\ paymentForm.invoice_document_id # NoDocument
          /\ paymentForm' = [paymentForm EXCEPT !.invoice_document_id = NoDocument]
    /\ UNCHANGED <<editingPayment, paymentDialogOpen, invoiceFile>>
    /\ UNCHANGED <<now, paymentsTable, nextPaymentId, everPaid, loadVars,
                   storeVars, routeId>>
    /\ UNCHANGED <<dashOnly, invVars, ownVars>>

\* handleEditPayment(payment), for a payment of the displayed list;
\* payment.invoice_document_id || "" and "" || null are both NoDocument here
handleEditPayment ==
    /\ pageShown
    /\ ~paymentDialogOpen
    /\ \E k \in 1..Len(payments) :
          /\ editingPayment' = payments[k].id
          /\ paymentForm' = [amount   |-> amountToString(payments[k].amount),
                             status   |-> payments[k].status,
                             due_date |-> payments[k].due_date,
                             invoice_document_id |-> payments[k].invoice_document_id]
    /\ invoiceFile' = NoFile
    /\ paymentDialogOpen' = TRUE
    /\ UNCHANGED <<now, paymentsTable, nextPaymentId, everPaid, loadVars,
                   storeVars, routeId>>
    /\ UNCHANGED <<dashOnly, invVars, ownVars>>

\* <Input id="amount" type="number" step="0.01" required />: the form
\* dispatches its submit event only when the field holds a number that is a
\* whole multiple of the step
checkValidity ==
    /\ ~paymentForm.amount.empty
    /\ paymentForm.amount.milli % 10 = 0

\* the documents table once handleAddPayment has uploaded invoiceFile and
\* inserted its row
uploadedDocuments ==
    IF invoiceFile # NoFile
    THEN insertDocument(documentsTable, nextDocumentId, routeId)
    ELSE documentsTable

\* let invoiceDocId = paymentForm.invoice_document_id;
\* if (invoiceFile) { ... invoiceDocId = docData.id; }
invoiceDocIdOf == IF invoiceFile # NoFile THEN nextDocumentId
                  ELSE paymentForm.invoice_document_id

\* the row the payment write is checked as: the update keeps the client_id
\* of the row it changes
writtenClient ==
    IF editingPayment # NoPayment /\ editingPayment \in DOMAIN paymentsTable
    THEN paymentsTable[editingPayment].client_id
    ELSE routeId

\* the submit of the payment form and handleAddPayment: the upload of the
\* chosen file and the insert of its documents row, the update or the insert
\* of the payment, then the reset of the dialog and loadClientData(), which
\* is not awaited.  A failed request throws: what was written before it
\* stays, and the dialog is left as it is.
handleAddPayment ==
    /\ paymentDialogOpen
    /\ Len(loadCalls) < MaxLoads
    /\ IF ~checkValidity \/ paymentForm.amount.empty \/ routeId = NoId
       THEN UNCHANGED <<paymentsTable, nextPaymentId, everPaid, formVars, loadVars,
                        documentsTable, nextDocumentId>>
       ELSE \* no user, or the first request failed
            \/ UNCHANGED <<paymentsTable, nextPaymentId, everPaid, formVars, loadVars,
                           documentsTable, nextDocumentId>>
            \* the documents row is in, the payment write failed
            \/ /\ invoiceFile # NoFile
               /\ nextDocumentId <= MaxDocuments
               /\ documentsConstraints(routeId)
               /\ documentsTable' = uploadedDocuments
               /\ nextDocumentId' = nextDocumentId + 1
               /\ UNCHANGED <<paymentsTable, nextPaymentId, everPaid, formVars,
                              loadVars>>
            \* every request succeeded
            \/ /\ invoiceFile # NoFile =>
                     nextDocumentId <= MaxDocuments /\ documentsConstraints(routeId)
               /\ paymentsConstraints(paymentValues(invoiceDocIdOf), writtenClient,
                                      uploadedDocuments)
               /\ documentsTable' = uploadedDocuments
               /\ nextDocumentId' =
                     IF invoiceFile # NoFile THEN nextDocumentId + 1 ELSE nextDocumentId
               /\ IF editingPayment # NoPayment
                  THEN /\ paymentsTable' =
                             updatePayment(paymentsTable, editingPayment,
                                           paymentValues(invoiceDocIdOf))
                       /\ UNCHANGED nextPaymentId
                  ELSE /\ nextPaymentId <= MaxPayments
                       /\ paymentsTable' =
                             insertPayment(paymentsTable, nextPaymentId,
                                           paymentValues(invoiceDocIdOf), routeId)
                       /\ nextPaymentId' = nextPaymentId + 1
               /\ everPaid' = everPaid \cup
                     {i \in DOMAIN paymentsTable' : paymentsTable'[i].status = "paid"}
               /\ paymentDialogOpen' = FALSE
               /\ editingPayment' = NoPayment
               /\ invoiceFile' = NoFile
               /\ paymentForm' = emptyPaymentForm
               /\ loadCalls' = callLoadClientData(loadCalls)
               /\ UNCHANGED <<payments, loading, client, documents>>
    /\ UNCHANGED <<now, clientsTable, requestError, routeId>>
    /\ UNCHANGED <<dashOnly, invVars, ownVars>>

\* handleDeletePayment(payment.id), then loadClientData()
handleDeletePayment ==
    /\ pageShown
    /\ ~paymentDialogOpen
    /\ Len(loadCalls) < MaxLoads
    /\ \E k \in 1..Len(payments) :
          \/ UNCHANGED <<paymentsTable, loadCalls>>
          \/ /\ paymentsTable' = deletePayment(paymentsTable, payments[k].id)
             /\ loadCalls' = callLoadClientData(loadCalls)
    /\ UNCHANGED <<payments, loading, client, documents>>
    /\ UNCHANGED <<now, nextPaymentId, everPaid, formVars, storeVars, routeId>>
    /\ UNCHANGED <<dashOnly, invVars, ownVars>>

\* handleFileUpload of the Upload Document dialog: the upload, the documents
\* row, then loadClientData()
handleFileUpload ==
    /\ pageShown
    /\ ~paymentDialogOpen
    /\ Len(loadCalls) < MaxLoads
    /\ \/ UNCHANGED <<documentsTable, nextDocumentId, loadCalls>>
       \/ /\ nextDocumentId <= MaxDocuments
          /\ documentsConstraints(routeId)
          /\ documentsTable' = insertDocument(documentsTable, nextDocumentId, routeId)
          /\ nextDocumentId' = nextDocumentId + 1
          /\ loadCalls' = callLoadClientData(loadCalls)
    /\ UNCHANGED <<payments, loading, client, documents>>
    /\ UNCHANGED <<now, paymentsTable, nextPaymentId, everPaid, formVars,
                   clientsTable, requestError, routeId>>
    /\ UNCHANGED <<dashOnly, invVars, ownVars>>

\* handleDeleteDocument(doc.id, doc.file_path), for a document of the
\* displayed list: the delete of the row, which sets the payments'
\* references to it null, then loadClientData()
handleDeleteDocument ==
    /\ pageShown
    /\ ~paymentDialogOpen
    /\ Len(loadCalls) < MaxLoads
    /\ \E doc \in documents :
          \/ UNCHANGED <<documentsTable, paymentsTable, loadCalls>>
          \/ /\ documentsTable' = deleteDocument(documentsTable, doc.id)
             /\ paymentsTable' = setNullDocument(paymentsTable, {doc.id})
             /\ loadCalls' = callLoadClientData(loadCalls)
    /\ UNCHANGED <<payments, loading, client, documents>>
    /\ UNCHANGED <<now, nextPaymentId, everPaid, formVars,
                   clientsTable, nextDocumentId, requestError, routeId>>
    /\ UNCHANGED <<dashOnly, invVars, ownVars>>

\* the steps of a loadClientData call of a signed-in user whose queries
\* are answered
LoadSteps ==
    \/ loadClientData_getUser
    \/ loadClientData_queries
    \/ loadClientData_response

\* one user, whose requests for the lists are answered, and who acts once
\* the last loadClientData call is over
PayNext ==
    \/ LoadSteps
    \/ loadCalls = <<>> /\ Tick
    \/ loadCalls = <<>> /\ openPaymentDialog
    \/ loadCalls = <<>> /\ closePaymentDialog
    \/ loadCalls = <<>> /\ setPaymentForm
    \/ loadCalls = <<>> /\ handleEditPayment
    \/ loadCalls = <<>> /\ handleAddPayment
    \/ loadCalls = <<>> /\ handleDeletePayment

(***************************************************************************)
(* The clients, payments and documents tables under requests made of the    *)
(* store directly, by this page, another page or another session.           *)
(***************************************************************************)
\* the last request was accepted
NoError == "none"

\* SQLSTATE 23514 check_violation, 23503 foreign_key_violation
CheckViolation == "23514"
ForeignKeyViolation == "23503"

\* the column values of the payment requests: a status the check admits
\* and one it does not, and each document id the table hands out
PaymentRequests ==
    {[amount |-> 100, status |-> st, due_date |-> NullDate, paid_date |-> NullDate,
      invoice_document_id |-> NoDocument] : st \in {"overdue", "cancelled"}}
    \cup
    {[amount |-> 200, status |-> "pending", due_date |-> NullDate,
      paid_date |-> NullDate, invoice_document_id |-> d] : d \in 1..MaxDocuments}

\* the error of a refused payment row: the check constraints of a row are
\* tested before its foreign keys
paymentsError(values) ==
    IF values.status \notin Statuses THEN CheckViolation ELSE ForeignKeyViolation

\* from("payments").insert({client_id, ...values})
requestInsertPayment(values, client_id) ==
    /\ nextPaymentId <= MaxPayments
    /\ IF paymentsConstraints(values, client_id, documentsTable)
       THEN /\ paymentsTable' =
                  insertPayment(paymentsTable, nextPaymentId, values, client_id)
            /\ nextPaymentId' = nextPaymentId + 1
            /\ requestError' = NoError
       ELSE /\ UNCHANGED <<paymentsTable, nextPaymentId>>
            /\ requestError' = paymentsError(values)
    /\ everPaid' = everPaid \cup
          {i \in DOMAIN paymentsTable' : paymentsTable'[i].status = "paid"}
    /\ UNCHANGED <<now, formVars, loadVars, clientsTable, documentsTable,
                   nextDocumentId, routeId>>
    /\ UNCHANGED <<dashOnly, invVars, ownVars>>

\* from("payments").update(values).eq("id", id)
requestUpdatePayment(id, values) ==
    /\ id \in DOMAIN paymentsTable
    /\ IF paymentsConstraints(values, paymentsTable[id].client_id, documentsTable)
       THEN /\ paymentsTable' = updatePayment(paymentsTable, id, values)
            /\ requestError' = NoError
       ELSE /\ UNCHANGED paymentsTable
            /\ requestError' = paymentsError(values)
    /\ everPaid' = everPaid \cup
          {i \in DOMAIN paymentsTable' : paymentsTable'[i].status = "paid"}
    /\ UNCHANGED <<now, nextPaymentId, formVars, loadVars, clientsTable,
                   documentsTable, nextDocumentId, routeId>>
    /\ UNCHANGED <<dashOnly, invVars, ownVars>>

requestWritePayment ==
    \E values \in PaymentRequests :
        \/ \E client_id \in ClientIds : requestInsertPayment(values, client_id)
        \/ \E id \in DOMAIN paymentsTable : requestUpdatePayment(id, values)

\* from("documents").insert({client_id, ...}): a document of a client, or
\* with client_id: null a receipt of the expenses page
requestInsertDocument ==
    /\ nextDocumentId <= MaxDocuments
    /\ \E client_id \in ClientIds \cup {NullClient} :
          IF documentsConstraints(client_id)
          THEN /\ documentsTable' =
                     insertDocument(documentsTable, nextDocumentId, client_id)
               /\ nextDocumentId' = nextDocumentId + 1
               /\ requestError' = NoError
          ELSE /\ UNCHANGED <<documentsTable, nextDocumentId>>
               /\ requestError' = ForeignKeyViolation
    /\ UNCHANGED <<now, paymentsTable, nextPaymentId, everPaid, formVars, loadVars,
                   clientsTable, routeId>>
    /\ UNCHANGED <<dashOnly, invVars, ownVars>>

\* from("documents").delete().eq("id", id)
requestDeleteDocument(id) ==
    /\ id \in DOMAIN documentsTable
    /\ documentsTable' = deleteDocument(documentsTable, id)
    /\ paymentsTable' = setNullDocument(paymentsTable, {id})
    /\ requestError' = NoError
    /\ UNCHANGED <<now, nextPaymentId, everPaid, formVars, loadVars,
                   clientsTable, nextDocumentId, routeId>>
    /\ UNCHANGED <<dashOnly, invVars, ownVars>>

\* from("clients").insert({...})
requestInsertClient ==
    /\ \E client_id \in ClientIds \ clientsTable :
          clientsTable' = clientsTable \cup {client_id}
    /\ requestError' = NoError
    /\ UNCHANGED <<now, paymentsTable, nextPaymentId, everPaid, formVars, loadVars,
                   documentsTable, nextDocumentId, routeId>>
    /\ UNCHANGED <<dashOnly, invVars, ownVars>>

\* the delete of a clients row: its payments and documents go with it, and a
\* payment left behind loses its reference to a document that went
requestDeleteClient(client_id) ==
    /\ client_id \in clientsTable
    /\ clientsTable' = clientsTable \ {client_id}
    /\ documentsTable' = cascadeClient(documentsTable, client_id)
    /\ paymentsTable' =
          setNullDocument(cascadeClient(paymentsTable, client_id),
                          DOMAIN documentsTable \ DOMAIN documentsTable')
    /\ requestError' = NoError
    /\ UNCHANGED <<now, nextPaymentId, everPaid, formVars, loadVars,
                   nextDocumentId, routeId>>
    /\ UNCHANGED <<dashOnly, invVars, ownVars>>

StoreNext ==
    \/ requestWritePayment
    \/ requestInsertDocument
    \/ \E id \in DOMAIN documentsTable : requestDeleteDocument(id)
    \/ requestInsertClient
    \/ \E client_id \in clientsTable : requestDeleteClient(client_id)

(***************************************************************************)
(* Invoices.tsx: the invoice dialog, the invoices and invoice_items tables. *)
(*                                                                          *)
(* Invoice money is counted in hundredths of a cent, so that                *)
(* subtotal * tax_rate / 100 is exact for prices in whole cents and rates   *)
(* in whole percent.                                                        *)
(*                                                                          *)
(* handleSubmit awaits each request; the steps below are the stretches      *)
(* between two awaits.  The handler works on the items and editingInvoice   *)
(* it captured when it was called: they are kept in submit.                 *)
(***************************************************************************)
\* the number of invoice ids the table hands out
MaxInvoices == 1
\* the longest item list of the form
MaxItems == 2

\* the most invoice_items rows one invoice comes to hold
MaxItemRows == 2

\* useState<Invoice | null>(null)
NoInvoice == 0

\* parseFloat(e.target.value) || 0 of the quantity field
Quantities == {0, 1, 2}

\* -0.25, 0.00 and 0.25
UnitPrices == {-2500, 0, 2500}

\* the text of the tax rate field: "", or a numeral given by its value in
\* percent: "-5", "0", "10", "150"
TaxRateTexts ==
    {[empty |-> TRUE, value |-> 0]}
    \cup {[empty |-> FALSE, value |-> v] : v \in {-5, 0, 10, 150}}

\* { description: "", quantity: 1, unit_price: 0, amount: 0 }
blankItem == [quantity |-> 1, unit_price |-> 0, amount |-> 0]

\* the form after resetForm
emptyInvoiceForm ==
    [client_id |-> "", invoice_number |-> "",
     tax_rate |-> [empty |-> FALSE, value |-> 0]]

idleSubmit ==
    [pc |-> "idle", editing |-> FALSE, id |-> NoInvoice, items |-> <<>>,
     row |-> <<>>, oldItems |-> <<>>, oldRow |-> <<>>]

\* calculateItemAmount adding where the code multiplies
calculateItemAmount_sum(quantity, unitPrice) == quantity + unitPrice

calculateItemAmount(quantity, unitPrice) == quantity * unitPrice

\* the reduce taking the last item alone
reduceItems_lastOnly(its, sum) ==
    IF its = <<>> THEN sum ELSE sum + its[Len(its)].amount

\* items.reduce((sum, item) => sum + item.amount, 0)
RECURSIVE reduceItems(_, _)
reduceItems(its, sum) ==
    IF its = <<>> THEN sum ELSE reduceItems(Tail(its), sum + Head(its).amount)

\* parseFloat(invoiceForm.tax_rate): NaN for the empty text
parseFloatTaxRate(text) == [nan |-> text.empty, v |-> text.value]

\* calculateTotals leaving the tax out of the total
calculateTotalsOf_untaxed(its, taxRateText) ==
    LET subtotal == reduceItems(its, 0)
    IN  [subtotal |-> subtotal,
         taxAmount |-> (subtotal * parseFloatTaxRate(taxRateText).v) \div 100,
         total |-> subtotal, nan |-> parseFloatTaxRate(taxRateText).nan]

\* calculateTotals for a list of items and a tax rate text.  With a NaN rate
\* taxAmount and total are NaN: nan says so, and the two numbers are void.
calculateTotalsOf(its, taxRateText) ==
    LET subtotal  == reduceItems(its, 0)
        taxRate   == parseFloatTaxRate(taxRateText)
        taxAmount == (subtotal * taxRate.v) \div 100
    IN  [subtotal |-> subtotal, taxAmount |-> taxAmount,
         total |-> subtotal + taxAmount, nan |-> taxRate.nan]

calculateTotals == calculateTotalsOf(items, invoiceForm.tax_rate)

\* the column values of the invoice update and insert
invoiceValues(id) ==
    [id         |-> id,
     subtotal   |-> calculateTotals.subtotal,
     tax_rate   |-> parseFloatTaxRate(invoiceForm.tax_rate).v,
     tax_amount |-> calculateTotals.taxAmount,
     total      |-> calculateTotals.total]

\* The request body is JSON: NaN goes out as null, and total is NOT NULL, so
\* the store refuses the row.
notNullViolation == calculateTotals.nan

\* the constraint validation of the form, without which no submit event is
\* dispatched: invoice number required; quantity type="number" min="1";
\* tax rate type="number" step="0.01" min="0" max="100", not required
formCheckValidity ==
    /\ invoiceForm.invoice_number # ""
    /\ \A i \in 1..Len(items) : items[i].quantity >= 1
    /\ \/ invoiceForm.tax_rate.empty
       \/ invoiceForm.tax_rate.value \in 0..100

InvInit ==
    /\ invoicesTable = <<>>
    /\ invoiceItemsTable = <<>>
    /\ nextInvoiceId = 1
    /\ invoiceForm = emptyInvoiceForm
    /\ items = <<blankItem>>
    /\ editingInvoice = NoInvoice
    /\ dialogOpen = FALSE
    /\ submit = idleSubmit

\* the New Invoice button: onOpenChange(true)
openInvoiceDialog ==
    /\ submit.pc = "idle"
    /\ ~dialogOpen
    /\ dialogOpen' = TRUE
    /\ UNCHANGED <<invoicesTable, invoiceItemsTable, nextInvoiceId, invoiceForm, items,
                   editingInvoice, submit>>
    /\ UNCHANGED <<dashVars, payVars, ownVars>>

\* resetForm
resetForm ==
    /\ editingInvoice' = NoInvoice
    /\ invoiceForm' = emptyInvoiceForm
    /\ items' = <<blankItem>>

\* onOpenChange(false): setDialogOpen(false); resetForm()
closeInvoiceDialog ==
    /\ submit.pc = "idle"
    /\ dialogOpen
    /\ dialogOpen' = FALSE
    /\ resetForm
    /\ UNCHANGED <<invoicesTable, invoiceItemsTable, nextInvoiceId, submit>>
    /\ UNCHANGED <<dashVars, payVars, ownVars>>

\* the onChange handlers of the client, invoice number and tax rate fields
setInvoiceForm ==
    /\ submit.pc = "idle"
    /\ dialogOpen
    /\ \/ \E c \in {"", "c1"} : invoiceForm' = [invoiceForm EXCEPT !.client_id = c]
       \/ \E n \in {"", "INV-001"} :
             invoiceForm' = [invoiceForm EXCEPT !.invoice_number = n]
       \/ \E r \in TaxRateTexts : invoiceForm' = [invoiceForm EXCEPT !.tax_rate = r]
    /\ UNCHANGED <<invoicesTable, invoiceItemsTable, nextInvoiceId, items,
                   editingInvoice, dialogOpen, submit>>
    /\ UNCHANGED <<dashVars, payVars, ownVars>>

\* handleItemChange(index, field, value).  The description is kept out of the
\* items: a change of it leaves quantity, unit_price and amount as they are.
handleItemChange ==
    /\ submit.pc = "idle"
    /\ dialogOpen
    /\ \E index \in 1..Len(items) :
          \/ items' = items
          \/ \E value \in Quantities :
                items' = [items EXCEPT ![index] =
                    [quantity   |-> value,
                     unit_price |-> @.unit_price,
                     amount     |-> calculateItemAmount(value, @.unit_price)]]
          \/ \E value \in UnitPrices :
                items' = [items EXCEPT ![index] =
                    [quantity   |-> @.quantity,
                     unit_price |-> value,
                     amount     |-> calculateItemAmount(@.quantity, value)]]
    /\ UNCHANGED <<invoicesTable, invoiceItemsTable, nextInvoiceId, invoiceForm,
                   editingInvoice, dialogOpen, submit>>
    /\ UNCHANGED <<dashVars, payVars, ownVars>>

addItem ==
    /\ submit.pc = "idle"
    /\ dialogOpen
    /\ Len(items) < MaxItems
    /\ items' = Append(items, blankItem)
    /\ UNCHANGED <<invoicesTable, invoiceItemsTable, nextInvoiceId, invoiceForm,
                   editingInvoice, dialogOpen, submit>>
    /\ UNCHANGED <<dashVars, payVars, ownVars>>

\* Mutant of withoutItem: the last item can be removed too
withoutItem_unguarded(its, index) ==
    SubSeq(its, 1, index - 1) \o SubSeq(its, index + 1, Len(its))

\* if (items.length > 1) setItems(items.filter((_, i) => i !== index))
withoutItem(its, index) ==
    IF Len(its) > 1
    THEN SubSeq(its, 1, index - 1) \o SubSeq(its, index + 1, Len(its))
    ELSE its

\* removeItem(index)
removeItem ==
    /\ submit.pc = "idle"
    /\ dialogOpen
    /\ \E index \in 1..Len(items) : items' = withoutItem(items, index)
    /\ UNCHANGED <<invoicesTable, invoiceItemsTable, nextInvoiceId, invoiceForm,
                   editingInvoice, dialogOpen, submit>>
    /\ UNCHANGED <<dashVars, payVars, ownVars>>

\* the submit of the form and handleSubmit up to its first write: the
\* validation, calculateTotals, then
\* the update of the invoice row (editingInvoice set) or its insert.  A failed
\* write throws: the handler ends in its catch block.
handleSubmit ==
    /\ submit.pc = "idle"
    /\ dialogOpen
    /\ IF \/ ~formCheckValidity
          \/ invoiceForm.client_id = "" \/ invoiceForm.invoice_number = ""
       THEN UNCHANGED <<invoicesTable, invoiceItemsTable, nextInvoiceId, submit>>
       ELSE IF editingInvoice # NoInvoice
       THEN /\ UNCHANGED <<invoiceItemsTable, nextInvoiceId>>
            /\ \/ /\ ~notNullViolation
                  /\ invoicesTable' =
                        [i \in DOMAIN invoicesTable |->
                            IF i = editingInvoice THEN invoiceValues(i)
                            ELSE invoicesTable[i]]
                  /\ submit' = [pc |-> "deleteItems", editing |-> TRUE,
                                id |-> editingInvoice, items |-> items,
                                row |-> invoiceValues(editingInvoice),
                                oldItems |-> invoiceItemsTable[editingInvoice],
                                oldRow |-> invoicesTable[editingInvoice]]
               \/ UNCHANGED <<invoicesTable, submit>>
       ELSE \/ /\ ~notNullViolation
               /\ nextInvoiceId <= MaxInvoices
               /\ invoicesTable' =
                     [i \in DOMAIN invoicesTable \cup {nextInvoiceId} |->
                         IF i = nextInvoiceId THEN invoiceValues(i)
                         ELSE invoicesTable[i]]
               /\ invoiceItemsTable' =
                     [i \in DOMAIN invoiceItemsTable \cup {nextInvoiceId} |->
                         IF i = nextInvoiceId THEN <<>> ELSE invoiceItemsTable[i]]
               /\ nextInvoiceId' = nextInvoiceId + 1
               /\ submit' = [pc |-> "insertItems", editing |-> FALSE,
                             id |-> nextInvoiceId, items |-> items,
                             row |-> invoiceValues(nextInvoiceId),
                             oldItems |-> <<>>, oldRow |-> <<>>]
            \/ UNCHANGED <<invoicesTable, invoiceItemsTable, nextInvoiceId, submit>>
    /\ UNCHANGED <<invoiceForm, items, editingInvoice, dialogOpen>>
    /\ UNCHANGED <<dashVars, payVars, ownVars>>

\* handleSubmit, update branch: await ...from("invoice_items").delete()
\* .eq("invoice_id", editingInvoice.id).  The result is not looked at: when
\* the request fails the handler goes on all the same.
handleSubmit_deleteItems ==
    /\ submit.pc = "deleteItems"
    /\ \/ invoiceItemsTable' = [invoiceItemsTable EXCEPT ![submit.id] = <<>>]
       \/ /\ Len(invoiceItemsTable[submit.id]) + Len(submit.items) <= MaxItemRows
          /\ UNCHANGED invoiceItemsTable
    /\ submit' = [submit EXCEPT !.pc = "insertItems"]
    /\ UNCHANGED <<invoicesTable, nextInvoiceId, invoiceForm, items, editingInvoice,
                   dialogOpen>>
    /\ UNCHANGED <<dashVars, payVars, ownVars>>

\* handleSubmit: the insert of the items, then setDialogOpen(false),
\* resetForm() and loadData().  A failed insert throws.
handleSubmit_insertItems ==
    /\ submit.pc = "insertItems"
    /\ \/ /\ invoiceItemsTable' =
                [invoiceItemsTable EXCEPT ![submit.id] = @ \o submit.items]
          /\ dialogOpen' = FALSE
          /\ resetForm
          /\ submit' = idleSubmit
       \/ /\ submit' = [submit EXCEPT !.pc = "catch"]
          /\ UNCHANGED <<invoiceItemsTable, dialogOpen, invoiceForm, items, editingInvoice>>
    /\ UNCHANGED <<invoicesTable, nextInvoiceId>>
    /\ UNCHANGED <<dashVars, payVars, ownVars>>

\* handleSubmit: the catch block after a failed insert of the items
handleSubmit_catch ==
    /\ submit.pc = "catch"
    /\ submit' = idleSubmit
    /\ UNCHANGED <<invoicesTable, invoiceItemsTable, nextInvoiceId, invoiceForm, items,
                   editingInvoice, dialogOpen>>
    /\ UNCHANGED <<dashVars, payVars, ownVars>>

\* handleDelete(invoice.id): invoice_items rows go with their invoice
\* (ON DELETE CASCADE)
handleDelete ==
    /\ submit.pc = "idle"
    /\ ~dialogOpen
    /\ \E id \in DOMAIN invoicesTable :
          \/ /\ invoicesTable' = [i \in DOMAIN invoicesTable \ {id} |-> invoicesTable[i]]
             /\ invoiceItemsTable' =
                   [i \in DOMAIN invoiceItemsTable \ {id} |-> invoiceItemsTable[i]]
          \/ UNCHANGED <<invoicesTable, invoiceItemsTable>>
    /\ UNCHANGED <<nextInvoiceId, invoiceForm, items, editingInvoice, dialogOpen, submit>>
    /\ UNCHANGED <<dashVars, payVars, ownVars>>

\* setEditingInvoice(invoice) for an invoice of the table.  No handler of the
\* page makes this call (the Edit button has no onClick): it is the state in
\* which handleSubmit takes its update branch.
setEditingInvoice ==
    /\ submit.pc = "idle"
    /\ dialogOpen
    /\ editingInvoice = NoInvoice
    /\ \E id \in DOMAIN invoicesTable : editingInvoice' = id
    /\ UNCHANGED <<invoicesTable, invoiceItemsTable, nextInvoiceId, invoiceForm, items,
                   dialogOpen, submit>>
    /\ UNCHANGED <<dashVars, payVars, ownVars>>

\* Mutant of editButton: the button opens the dialog on its invoice
editButton_withHandler ==
    /\ submit.pc = "idle"
    /\ ~dialogOpen
    /\ \E id \in DOMAIN invoicesTable : editingInvoice' = id
    /\ dialogOpen' = TRUE
    /\ UNCHANGED <<invoicesTable, invoiceItemsTable, nextInvoiceId, invoiceForm, items,
                   submit>>
    /\ UNCHANGED <<dashVars, payVars, ownVars>>

\* <Button size="sm" variant="outline"><Edit /></Button> of an invoice card:
\* the button has no onClick, a click on it changes nothing
editButton ==
    /\ submit.pc = "idle"
    /\ ~dialogOpen
    /\ \E id \in DOMAIN invoicesTable : UNCHANGED editingInvoice
    /\ UNCHANGED <<invoicesTable, invoiceItemsTable, nextInvoiceId, invoiceForm, items,
                   dialogOpen, submit>>
    /\ UNCHANGED <<dashVars, payVars, ownVars>>

\* the actions the invoice page offers
InvNext ==
    \/ openInvoiceDialog
    \/ closeInvoiceDialog
    \/ setInvoiceForm
    \/ handleItemChange
    \/ addItem
    \/ removeItem
    \/ handleSubmit
    \/ handleSubmit_insertItems
    \/ handleSubmit_catch
    \/ handleDelete

\* the dialog alone: what is typed before the form is submitted
FormNext ==
    \/ openInvoiceDialog
    \/ closeInvoiceDialog
    \/ setInvoiceForm
    \/ handleItemChange
    \/ addItem
    \/ removeItem

\* the submit of a form that has been filled in
SaveNext ==
    \/ handleSubmit
    \/ handleSubmit_insertItems
    \/ handleSubmit_catch

\* every handler of the invoice page that sets editingInvoice or reads it,
\* on a form that has been filled in
ButtonsNext ==
    \/ openInvoiceDialog
    \/ closeInvoiceDialog
    \/ addItem
    \/ removeItem
    \/ handleSubmit
    \/ handleSubmit_insertItems
    \/ handleSubmit_catch
    \/ handleDelete
    \/ editButton

\* the same with handleSubmit entered while an invoice is being edited
EditNext ==
    \/ InvNext
    \/ setEditingInvoice
    \/ handleSubmit_deleteItems

(***************************************************************************)
(* Row level security: the migrations' policies on payments, documents,     *)
(* expenses and invoices, and the queries of the pages.  An account writes  *)
(* through the API with the values it chooses, not only those the pages     *)
(* send.                                                                    *)
(***************************************************************************)
\* the most rows the four tables hold together
MaxOwnedRows == 2

\* auth.users
Accounts == {"A", "B"}

\* expenses have no client_id
NoClient == "-"

\* the rows a request can carry: table, user_id, client_id, amount (total for
\* an invoice, none for a document)
OwnedRows ==
    {[table |-> "payments", user_id |-> u, client_id |-> c, amount |-> a] :
        u \in Accounts, c \in ClientIds, a \in {1, 2}}
    \cup {[table |-> "invoices", user_id |-> u, client_id |-> c, amount |-> 1] :
        u \in Accounts, c \in ClientIds}
    \cup {[table |-> "documents", user_id |-> u, client_id |-> c, amount |-> 0] :
        u \in Accounts, c \in ClientIds}
    \cup {[table |-> "expenses", user_id |-> u, client_id |-> NoClient, amount |-> a] :
        u \in Accounts, a \in {1, 2}}

OwnInit == db = <<>>

\* the select policy with row level security switched off
rlsSelect_off(uid, row) == TRUE

\* FOR SELECT USING (auth.uid() = user_id), the same on the four tables
rlsSelect(uid, row) == uid = row.user_id

\* FOR INSERT WITH CHECK (auth.uid() = user_id)
rlsInsert(uid, row) == uid = row.user_id

\* FOR UPDATE USING (auth.uid() = user_id): without a WITH CHECK the USING
\* expression is applied to the new row as well.  documents has no update
\* policy, so no row of it can be updated.
rlsUpdate(uid, old, new) ==
    /\ old.table # "documents"
    /\ uid = old.user_id
    /\ uid = new.user_id

\* FOR DELETE USING (auth.uid() = user_id)
rlsDelete(uid, row) == uid = row.user_id

\* insert by the account uid: a row that fails the check is refused
insertBy(uid) ==
    \E id \in (1..MaxOwnedRows) \ DOMAIN db : \E row \in OwnedRows :
        IF rlsInsert(uid, row)
        THEN db' = [i \in DOMAIN db \cup {id} |-> IF i = id THEN row ELSE db[i]]
        ELSE UNCHANGED db

\* update ... eq("id", id) by the account uid: a row the policy hides is not
\* updated, a new row that fails the check is refused
updateBy(uid) ==
    \E id \in DOMAIN db : \E row \in OwnedRows :
        /\ row.table = db[id].table
        /\ IF rlsUpdate(uid, db[id], row)
           THEN db' = [db EXCEPT ![id] = row]
           ELSE UNCHANGED db

\* delete ... eq("id", id) by the account uid
deleteBy(uid) ==
    \E id \in DOMAIN db :
        IF rlsDelete(uid, db[id])
        THEN db' = [i \in DOMAIN db \ {id} |-> db[i]]
        ELSE UNCHANGED db

insertRow ==
    /\ \E uid \in Accounts : insertBy(uid)
    /\ UNCHANGED <<dashVars, payVars, invVars>>

updateRow ==
    /\ \E uid \in Accounts : updateBy(uid)
    /\ UNCHANGED <<dashVars, payVars, invVars>>

deleteRow ==
    /\ \E uid \in Accounts : deleteBy(uid)
    /\ UNCHANGED <<dashVars, payVars, invVars>>

OwnNext == insertRow \/ updateRow \/ deleteRow

\* supabase.from(table).select(...) with the session of uid: the ids of the
\* rows the select policy lets through
selectFrom(uid, table) ==
    {id \in DOMAIN db : db[id].table = table /\ rlsSelect(uid, db[id])}

\* Dashboard.tsx: from("payments")...eq("user_id", user.id)
dashboardPayments(uid) == {id \in selectFrom(uid, "payments") : db[id].user_id = uid}

\* Dashboard.tsx: from("documents")...eq("user_id", user.id)
dashboardDocuments(uid) == {id \in selectFrom(uid, "documents") : db[id].user_id = uid}

\* ClientDetail.tsx: from("payments").select("*").eq("client_id", id)
clientPayments(uid, id) == {i \in selectFrom(uid, "payments") : db[i].client_id = id}

\* ClientDetail.tsx: from("documents").select("*").eq("client_id", id)
clientDocuments(uid, id) == {i \in selectFrom(uid, "documents") : db[i].client_id = id}

\* loadExpenses: from("expenses").select("*")
loadExpenses(uid) == selectFrom(uid, "expenses")

\* Invoices.tsx: from("invoices").select("*").eq("user_id", user.id)
loadInvoices(uid) == {id \in selectFrom(uid, "invoices") : db[id].user_id = uid}

(***************************************************************************)
(* Specifications.                                                          *)
(***************************************************************************)
vars == <<dashVars, payVars, invVars, ownVars>>

\* the dashboard is not loaded
DashFixed ==
    /\ engineParsesMonthLabel = TRUE
    /\ paymentsResult = [isNull |-> FALSE, data |-> <<>>]
    /\ stats = [totalPaid |-> 0, totalPending |-> 0]
    /\ chartData = [monthly |-> <<>>, timeline |-> <<>>, statusDistribution |-> <<>>]
    /\ dashLoaded = FALSE
    /\ payments = <<>>
    /\ loading = TRUE

\* the tables are empty, no dialog is open, the dashboard is not loaded
Init == PayInit /\ DashFixed /\ InvInit /\ OwnInit

\* a payments snapshot has arrived; the pages are as they start
DashStart == DashInit /\ PayInit /\ InvInit /\ OwnInit

\* the payment dialog of the client page over the payments table
Spec == Init /\ [][PayNext]_vars

\* the dashboard and the client totals over payment snapshots
DashSpec == DashStart /\ [][DashNext]_vars

\* the invoice page over the invoices and invoice_items tables
InvoiceSpec == Init /\ [][InvNext]_vars

\* the invoice page with the update branch of handleSubmit entered
\* 5.00 and 10.00 besides the prices above
TypedPrices == UnitPrices \cup {50000, 100000}

\* the items handleItemChange leaves in the form
TypedItems ==
    {[quantity |-> q, unit_price |-> p, amount |-> calculateItemAmount(q, p)] :
        q \in Quantities, p \in TypedPrices}

\* the dialog is open and filled in
FormStart ==
    /\ PayInit
    /\ DashFixed
    /\ invoicesTable = <<>>
    /\ invoiceItemsTable = <<>>
    /\ nextInvoiceId = 1
    /\ invoiceForm \in [client_id : {"", "c1"}, invoice_number : {"", "INV-001"},
                        tax_rate : TaxRateTexts]
    /\ items \in UNION {[1..n -> TypedItems] : n \in 1..MaxItems}
    /\ editingInvoice = NoInvoice
    /\ dialogOpen = TRUE
    /\ submit = idleSubmit
    /\ OwnInit

EditSpec == Init /\ [][EditNext]_vars
SaveSpec == FormStart /\ [][SaveNext]_vars

\* the buttons of the invoice page
ButtonsSpec == FormStart /\ [][ButtonsNext]_vars

\* the client page is opened, with or without an id in its route, on a
\* client with two payments
LoadStart ==
    /\ DashFixed
    /\ InvInit
    /\ OwnInit
    /\ now = 1
    /\ paymentsTable =
          [i \in 1..2 |->
              withId([amount |-> 100 * i, status |-> "pending", due_date |-> NullDate,
                      paid_date |-> NullDate, invoice_document_id |-> NoDocument],
                     i, "c1")]
    /\ nextPaymentId = 3
    /\ paymentForm = emptyPaymentForm
    /\ editingPayment = NoPayment
    /\ paymentDialogOpen = FALSE
    /\ everPaid = {}
    /\ clientsTable = {"c1"}
    /\ documentsTable = <<>>
    /\ nextDocumentId = 1
    /\ requestError = NoError
    /\ routeId \in {NoId, "c1"}
    /\ client = NoId
    /\ documents = {}
    /\ invoiceFile = NoFile
    /\ loadCalls = callLoadClientData(<<>>)

\* the handlers that call loadClientData, and the steps of its calls in any
\* order
LoadNext ==
    \/ LoadSteps
    \/ loadClientData_noUser
    \/ loadClientData_queryError
    \/ handleEditPayment
    \/ closePaymentDialog
    \/ handleAddPayment
    \/ handleDeletePayment
    \/ handleFileUpload
    \/ handleDeleteDocument

\* the client page with its loadClientData calls overlapping
LoadSpec == LoadStart /\ [][LoadNext]_vars

\* the page of a client with one payment is opened
AttachStart ==
    /\ DashFixed
    /\ InvInit
    /\ OwnInit
    /\ now = 1
    /\ paymentsTable =
          [i \in {1} |->
              withId([amount |-> 100, status |-> "pending", due_date |-> NullDate,
                      paid_date |-> NullDate, invoice_document_id |-> NoDocument],
                     i, "c1")]
    /\ nextPaymentId = 2
    /\ paymentForm = emptyPaymentForm
    /\ editingPayment = NoPayment
    /\ paymentDialogOpen = FALSE
    /\ everPaid = {}
    /\ clientsTable = {"c1"}
    /\ documentsTable = <<>>
    /\ nextDocumentId = 1
    /\ requestError = NoError
    /\ routeId = "c1"
    /\ documents = {}
    /\ invoiceFile = NoFile
    /\ client = NoId
    /\ loadCalls = callLoadClientData(<<>>)

\* the payment dialog with its attachment fields and the document list, the
\* user acting once the last loadClientData call is over
AttachNext ==
    \/ LoadSteps
    \/ loadCalls = <<>> /\ openPaymentDialog
    \/ loadCalls = <<>> /\ closePaymentDialog
    \/ loadCalls = <<>>
          /\ setPaymentFormTo({amountToString(100)}, {"paid"}, {NullDate})
    \/ loadCalls = <<>> /\ setInvoiceFile
    \/ loadCalls = <<>> /\ clearInvoiceFile
    \/ loadCalls = <<>> /\ setInvoiceDocument
    \/ loadCalls = <<>> /\ handleEditPayment
    \/ loadCalls = <<>> /\ handleAddPayment
    \/ loadCalls = <<>> /\ handleFileUpload
    \/ loadCalls = <<>> /\ handleDeleteDocument

\* the attachment of an invoice document to a payment
AttachSpec == AttachStart /\ [][AttachNext]_vars

\* the clients, payments and documents tables under direct requests
StoreSpec == Init /\ [][StoreNext]_vars

\* two accounts writing to the tables under their row level security
OwnerSpec == Init /\ [][OwnNext]_vars
FormSpec == Init /\ [][FormNext]_vars

(***************************************************************************)
(* Reference definitions used by the properties: sums and counts taken      *)
(* directly over the index set of a snapshot.                               *)
(***************************************************************************)
Snapshot == paymentsResult.data

RECURSIVE SumIdx(_, _)
SumIdx(ps, I) ==
    IF I = {} THEN 0
    ELSE LET i == CHOOSE j \in I : TRUE
         IN  ps[i].amount + SumIdx(ps, I \ {i})

WithStatus(ps, S) == {i \in 1..Len(ps) : ps[i].status \in S}

\* the rows that are paid and carry a paid_date
Dated(ps) == {i \in 1..Len(ps) : ps[i].status = "paid" /\ ps[i].paid_date # NullDate}

\* calendar position of a "MMM yyyy" label, in months
Chron(label) == label[2] * 12 + MonthIndex(label[1])

ChronOfDate(dt) == dt.y * 12 + dt.m

\* C1: after any sequence of creations and edits through handleAddPayment,
\* every persisted payment has a paid_date if and only if its status is paid;
\* an edit that takes a paid payment to pending or overdue clears paid_date.
C1_PaidDateIffPaid ==
    \A i \in DOMAIN paymentsTable :
        (paymentsTable[i].paid_date # NullDate) <=> (paymentsTable[i].status = "paid")

\* a payment once written as paid has been edited to another status, next
\* to a payment that is paid
C1_Witness ==
    /\ \E i \in everPaid \cap DOMAIN paymentsTable :
          /\ paymentsTable[i].status # "paid"
          /\ paymentsTable[i].paid_date = NullDate
    /\ \E j \in DOMAIN paymentsTable :
          /\ paymentsTable[j].status = "paid"
          /\ paymentsTable[j].paid_date # NullDate

\* C2: no step changes the paid_date of a payment that is paid before the
\* step and paid after it: only the transition into paid stamps the date.
C2_PaidDateKeptWhilePaid ==
    [][\A i \in DOMAIN paymentsTable \cap DOMAIN paymentsTable' :
          (paymentsTable[i].status = "paid" /\ paymentsTable'[i].status = "paid")
             => paymentsTable'[i].paid_date = paymentsTable[i].paid_date]_vars

\* C3: in every state of the store each persisted invoice has subtotal = sum
\* of the amounts of its persisted items, tax_amount = subtotal * tax_rate /
\* 100 and total = subtotal + tax_amount.
C3_TotalsMatchPersistedItems ==
    \A i \in DOMAIN invoicesTable :
        LET row  == invoicesTable[i]
            rows == invoiceItemsTable[i]
        IN  /\ row.subtotal = SumIdx(rows, 1..Len(rows))
            /\ row.tax_amount * 100 = row.subtotal * row.tax_rate
            /\ row.total = row.subtotal + row.tax_amount

C5_TotalsAreStatusSums ==
    /\ dashLoaded =>
         /\ stats.totalPaid = SumIdx(Snapshot, WithStatus(Snapshot, {"paid"}))
         /\ stats.totalPending =
               SumIdx(Snapshot, WithStatus(Snapshot, {"pending", "overdue"}))
    /\ ~loading =>
         /\ clientTotalPaid = SumIdx(Snapshot, WithStatus(Snapshot, {"paid"}))
         /\ clientTotalPending =
               SumIdx(Snapshot, WithStatus(Snapshot, {"pending", "overdue"}))
    /\ (dashLoaded /\ Snapshot = <<>>) => stats = [totalPaid |-> 0, totalPending |-> 0]
    /\ (~loading /\ Snapshot = <<>>) => clientTotalPaid = 0 /\ clientTotalPending = 0

C5_Witness ==
    /\ dashLoaded /\ ~loading
    /\ stats.totalPaid > 0 /\ stats.totalPending > 0
    /\ clientTotalPaid = stats.totalPaid /\ clientTotalPending = stats.totalPending

\* C6: paid total plus outstanding total is the sum of all payment amounts of
\* the snapshot: every payment is in exactly one of the two totals.
C6_TotalsPartitionLedger ==
    /\ dashLoaded =>
         stats.totalPaid + stats.totalPending = SumIdx(Snapshot, 1..Len(Snapshot))
    /\ ~loading =>
         clientTotalPaid + clientTotalPending = SumIdx(Snapshot, 1..Len(Snapshot))

C6_Witness ==
    /\ dashLoaded
    /\ \E i, j \in 1..Len(Snapshot) :
          /\ Snapshot[i].status = "overdue" /\ Snapshot[i].amount > 0
          /\ Snapshot[j].status = "paid" /\ Snapshot[j].amount > 0

\* C7: the monthly series has at most 6 entries, they are the 6 latest
\* (year, month) buckets holding a paid payment with a paid_date, and they
\* are in strictly ascending chronological order whatever the input order.
C7_MonthlyLatestSixAscending ==
    dashLoaded =>
      LET M == chartData.monthly
          K == {ChronOfDate(Snapshot[i].paid_date) : i \in Dated(Snapshot)}
          Latest == {k \in K : Cardinality({h \in K : h > k}) < MonthlyWindow}
      IN  /\ Len(M) <= MonthlyWindow
          /\ {Chron(M[i].month) : i \in 1..Len(M)} = Latest
          /\ \A i, j \in 1..Len(M) : i < j => Chron(M[i].month) < Chron(M[j].month)

\* C8: each retained monthly bucket sums and counts exactly the paid payments
\* whose paid_date lies in that calendar year and month.
C8_MonthlyBucketContents ==
    dashLoaded =>
      \A e \in 1..Len(chartData.monthly) :
        LET entry == chartData.monthly[e]
            I == {i \in Dated(Snapshot) :
                    /\ Snapshot[i].paid_date.y = entry.month[2]
                    /\ MonthAbbr[Snapshot[i].paid_date.m] = entry.month[1]}
        IN  /\ I # {}
            /\ entry.revenue = SumIdx(Snapshot, I)
            /\ entry.payments = Cardinality(I)

C8_Witness ==
    /\ dashLoaded
    /\ \E a, b \in 1..Len(chartData.monthly) :
          /\ chartData.monthly[a].month[1] = chartData.monthly[b].month[1]
          /\ chartData.monthly[a].month[2] # chartData.monthly[b].month[2]
          /\ chartData.monthly[a].revenue # 0

WithoutNullDate(ps) == SelectSeq(ps, LAMBDA p : p.paid_date # NullDate)

\* C9 as stated: a payment with a null paid_date contributes to none of the
\* three chart derivations (the charts are those of the snapshot without it).
C9_NullDateInNoChart ==
    dashLoaded => chartData = processChartData(WithoutNullDate(Snapshot))

\* C9 as amended: a payment with a null paid_date contributes to no monthly
\* revenue bucket and to no daily timeline bucket.
C9_NullDateInNoTimeBucket ==
    dashLoaded =>
      /\ chartData.monthly = processChartData(WithoutNullDate(Snapshot)).monthly
      /\ chartData.timeline = processChartData(WithoutNullDate(Snapshot)).timeline

C9_Witness ==
    /\ dashLoaded
    /\ chartData.monthly # <<>>
    /\ \E i \in 1..Len(Snapshot) :
          /\ Snapshot[i].paid_date = NullDate
          /\ Snapshot[i].status = "paid"
          /\ Snapshot[i].amount # 0

StatusName(s) ==
    CASE s = "paid" -> "Paid" [] s = "pending" -> "Pending" [] OTHER -> "Overdue"

StatusRank(name) ==
    CASE name = "Paid" -> 1 [] name = "Pending" -> 2 [] OTHER -> 3

\* C10: the status distribution holds one entry per status whose amounts,
\* summed over all payments of that status, are strictly positive, with that
\* sum as value, in the order paid, pending, overdue; no entry otherwise.
C10_StatusDistribution ==
    dashLoaded =>
      LET D == chartData.statusDistribution
          S(s) == SumIdx(Snapshot, WithStatus(Snapshot, {s}))
      IN  /\ \A s \in Statuses :
                (S(s) > 0) <=>
                  (\E i \in 1..Len(D) : D[i].name = StatusName(s) /\ D[i].value = S(s))
          /\ \A i \in 1..Len(D) : \E s \in Statuses : D[i].name = StatusName(s) /\ S(s) > 0
          /\ \A i, j \in 1..Len(D) : i < j => StatusRank(D[i].name) < StatusRank(D[j].name)

C10_Witness ==
    /\ dashLoaded
    /\ Len(chartData.statusDistribution) = 1
    /\ chartData.statusDistribution[1].name = "Overdue"
    /\ \E i \in 1..Len(Snapshot) : Snapshot[i].status = "paid"

\* the day label of a dated row of the snapshot
LabelOf(i) == formatMMMdd(parseISO(Snapshot[i].paid_date))

\* the rows of the snapshot that carry a given day label
WithLabel(label) == {i \in Dated(Snapshot) : LabelOf(i) = label}

\* the rows at which a day label occurs for the first time
FirstRows ==
    {i \in Dated(Snapshot) : \A j \in Dated(Snapshot) : j < i => LabelOf(j) # LabelOf(i)}

DayLabels == {LabelOf(i) : i \in Dated(Snapshot)}

SameDayOtherYear ==
    {pr \in Dated(Snapshot) \X Dated(Snapshot) :
        /\ Snapshot[pr[1]].paid_date.m = Snapshot[pr[2]].paid_date.m
        /\ Snapshot[pr[1]].paid_date.d = Snapshot[pr[2]].paid_date.d
        /\ Snapshot[pr[1]].paid_date.y # Snapshot[pr[2]].paid_date.y}

\* C12: two paid payments with the same month and day in different years
\* are summed in one timeline bucket, and lie in two different buckets of the
\* monthly series.
C12_SameDayCollidesAcrossYears ==
    dashLoaded =>
      \A pr \in SameDayOtherYear :
        LET T == chartData.timeline
            M == chartData.monthly
            B == {k \in 1..Len(T) : T[k].date = LabelOf(pr[1])}
        IN  /\ Cardinality(B) <= 1
            /\ Cardinality(DayLabels) <= TimelineWindow => B # {}
            /\ \A k \in B :
                  /\ T[k].date = LabelOf(pr[2])
                  /\ T[k].revenue = SumIdx(Snapshot, WithLabel(T[k].date))
                  /\ {pr[1], pr[2]} \subseteq WithLabel(T[k].date)
            /\ \A a, b \in 1..Len(M) :
                  (/\ M[a].month = formatMMMyyyy(parseISO(Snapshot[pr[1]].paid_date))
                   /\ M[b].month = formatMMMyyyy(parseISO(Snapshot[pr[2]].paid_date)))
                     => a # b
            /\ Cardinality({ChronOfDate(Snapshot[i].paid_date) : i \in Dated(Snapshot)})
                  <= MonthlyWindow
               => \A i \in {pr[1], pr[2]} : \E a \in 1..Len(M) :
                     M[a].month = formatMMMyyyy(parseISO(Snapshot[i].paid_date))

C12_Witness ==
    /\ dashLoaded
    /\ SameDayOtherYear # {}
    /\ Len(Snapshot) = 2
    /\ Len(chartData.timeline) = 1
    /\ chartData.timeline[1].revenue = Snapshot[1].amount + Snapshot[2].amount
    /\ chartData.timeline[1].revenue > 0
    /\ Len(chartData.monthly) = 2

\* an amount text that is negative or has a fraction of a cent
InvalidAmount(text) ==
    ~text.empty /\ (parseFloat(text) < 0 \/ parseFloat(text) % 10 # 0)

\* C13: no step taken while the payment form holds a negative or not
\* cent-exact amount changes the payments table, and no persisted payment has
\* a negative amount.
C13_InvalidAmountRejected ==
    [][/\ (paymentDialogOpen /\ InvalidAmount(paymentForm.amount))
            => paymentsTable' = paymentsTable
       /\ \A i \in DOMAIN paymentsTable' : paymentsTable'[i].amount >= 0]_vars

\* a tax rate text that reads as NaN or as a number outside [0, 100]
InvalidTaxRate(text) == text.empty \/ text.value \notin 0..100

\* C14: while the tax rate field holds a text that is empty or outside
\* [0, 100], calculateTotals yields no tax amount and no total, and no
\* persisted invoice has a tax_rate outside [0, 100].
C14_InvalidTaxRateRejected ==
    /\ \A id \in DOMAIN invoicesTable : invoicesTable[id].tax_rate \in 0..100
    /\ (dialogOpen /\ InvalidTaxRate(invoiceForm.tax_rate)) => calculateTotals.nan

\* C15: no persisted invoice item has a quantity of 0 or less or a negative
\* unit_price.
C15_NoInvalidItemPersisted ==
    \A id \in DOMAIN invoiceItemsTable :
        \A k \in 1..Len(invoiceItemsTable[id]) :
            /\ invoiceItemsTable[id][k].quantity > 0
            /\ invoiceItemsTable[id][k].unit_price >= 0

\* C16: every item of the invoice form has amount = quantity * unit_price.
C16_ItemAmountIsProduct ==
    \A i \in 1..Len(items) : items[i].amount = items[i].quantity * items[i].unit_price

\* two items in the form, one with a quantity and a price that have been typed
C16_Witness ==
    /\ dialogOpen
    /\ Len(items) = 2
    /\ items[1].quantity = 2 /\ items[1].unit_price = 2500 /\ items[1].amount = 5000
    /\ items[2].quantity = 0 /\ items[2].unit_price = -2500

\* the amounts of a list of items added up in sequence order, from 0
RECURSIVE AmountsInOrder(_)
AmountsInOrder(its) ==
    IF its = <<>> THEN 0
    ELSE AmountsInOrder(SubSeq(its, 1, Len(its) - 1)) + its[Len(its)].amount

\* 2 at 10.00 and 1 at 5.00
TwoItems ==
    <<[quantity |-> 2, unit_price |-> 100000, amount |-> 200000],
      [quantity |-> 1, unit_price |-> 50000, amount |-> 50000]>>

\* C17: the subtotal of calculateTotals, and the subtotal written to the
\* invoice row, is the sum of the item amounts in sequence order, 0 for the
\* empty list; 2 at 10.00 and 1 at 5.00 with a rate of 10 give 25.00, 2.50
\* and 27.50.
C17_SubtotalIsSumOfAmounts ==
    /\ calculateTotals.subtotal = AmountsInOrder(items)
    /\ submit.pc = "insertItems" =>
          invoicesTable[submit.id].subtotal = AmountsInOrder(submit.items)
    /\ \A r \in TaxRateTexts : calculateTotalsOf(<<>>, r).subtotal = 0
    /\ (items = TwoItems /\ invoiceForm.tax_rate = [empty |-> FALSE, value |-> 10]) =>
          calculateTotals = [subtotal |-> 250000, taxAmount |-> 25000,
                             total |-> 275000, nan |-> FALSE]

\* the invoice of 2 at 10.00 and 1 at 5.00 at 10 percent has been written
C17_Witness ==
    /\ submit.pc = "insertItems"
    /\ submit.items = TwoItems
    /\ invoicesTable[submit.id].subtotal = 250000
    /\ invoicesTable[submit.id].tax_amount = 25000
    /\ invoicesTable[submit.id].total = 275000

\* C18: with a tax rate in [0, 100] the total of calculateTotals is its
\* subtotal plus its tax amount, and so it is for the three values of every
\* persisted invoice row.
C18_TotalIsSubtotalPlusTax ==
    /\ ~InvalidTaxRate(invoiceForm.tax_rate) =>
          /\ ~calculateTotals.nan
          /\ calculateTotals.total = calculateTotals.subtotal + calculateTotals.taxAmount
    /\ \A id \in DOMAIN invoicesTable :
          invoicesTable[id].total = invoicesTable[id].subtotal + invoicesTable[id].tax_amount

\* an invoice row with a tax amount has been written
C18_Witness ==
    \E id \in DOMAIN invoicesTable :
        /\ invoicesTable[id].tax_amount > 0
        /\ invoicesTable[id].total = invoicesTable[id].subtotal + invoicesTable[id].tax_amount

\* C19: the subtotal, tax_amount and total of every persisted invoice are
\* whole cents.
C19_PersistedTotalsWholeCents ==
    \A id \in DOMAIN invoicesTable :
        /\ invoicesTable[id].subtotal % 100 = 0
        /\ invoicesTable[id].tax_amount % 100 = 0
        /\ invoicesTable[id].total % 100 = 0

\* the rows of a query result, and the sum of their amounts
RowsOf(ids) == [id \in ids |-> db[id]]

RECURSIVE SumOfAmounts(_)
SumOfAmounts(ids) ==
    IF ids = {} THEN 0
    ELSE LET id == CHOOSE i \in ids : TRUE
         IN  db[id].amount + SumOfAmounts(ids \ {id})

\* what the pages show to the account uid: the dashboard's payments and
\* document count, the payments and documents of each client page, the
\* expenses and the invoice list, each with its total
ShownTo(uid) ==
    [dashboard |-> <<RowsOf(dashboardPayments(uid)), SumOfAmounts(dashboardPayments(uid)),
                     Cardinality(dashboardDocuments(uid))>>,
     clients   |-> [c \in ClientIds |->
                      <<RowsOf(clientPayments(uid, c)), SumOfAmounts(clientPayments(uid, c)),
                        RowsOf(clientDocuments(uid, c))>>],
     expenses  |-> <<RowsOf(loadExpenses(uid)), SumOfAmounts(loadExpenses(uid))>>,
     invoices  |-> RowsOf(loadInvoices(uid))]

\* every id a query of the account uid returns
ReturnedTo(uid) ==
    dashboardPayments(uid) \cup dashboardDocuments(uid) \cup loadExpenses(uid)
    \cup loadInvoices(uid)
    \cup UNION {clientPayments(uid, c) \cup clientDocuments(uid, c) : c \in ClientIds}

\* a write of the account uid
WriteBy(uid) == insertBy(uid) \/ updateBy(uid) \/ deleteBy(uid)

\* C20: every query of an account returns rows of that account only, and
\* what the pages show to an account is left as it is by every write of
\* another account.
C20_OtherAccountsUnseen ==
    [][\A u \in Accounts :
          /\ \A id \in ReturnedTo(u)' : db'[id].user_id = u
          /\ \A v \in Accounts \ {u} : WriteBy(v) => ShownTo(u)' = ShownTo(u)]_vars

\* A has a payment of its client c1, and B has inserted a payment with the
\* client_id of c1: the client page of A shows the payment of A alone
C20_Witness ==
    \E i, j \in DOMAIN db :
        /\ db[i].table = "payments" /\ db[i].user_id = "A" /\ db[i].client_id = "c1"
        /\ db[j].table = "payments" /\ db[j].user_id = "B" /\ db[j].client_id = "c1"
        /\ clientPayments("A", "c1") = {i}

\* C21: every persisted payment has a status among paid, pending and
\* overdue; an insert or an update with another status is refused by the
\* store, which reports the failure and leaves the table as it is.
C21_StatusChecked ==
    [][/\ \A i \in DOMAIN paymentsTable' : paymentsTable'[i].status \in Statuses
       /\ \A values \in PaymentRequests :
             (/\ values.status \notin Statuses
              /\ \/ \E c \in ClientIds : requestInsertPayment(values, c)
                 \/ \E i \in DOMAIN paymentsTable : requestUpdatePayment(i, values))
             => /\ paymentsTable' = paymentsTable
                /\ requestError' = CheckViolation]_vars

\* a write with a status outside the three has been refused while the table
\* holds payments
C21_Witness ==
    /\ requestError = CheckViolation
    /\ \E i, j \in DOMAIN paymentsTable :
          paymentsTable[i].status = "pending" /\ paymentsTable[j].status = "overdue"

\* C22: every payment names a client that exists, and every document names
\* a client that exists or none: the delete of a client takes all its
\* payments and documents with it.
C22_ClientCascade ==
    /\ \A i \in DOMAIN paymentsTable : paymentsTable[i].client_id \in clientsTable
    /\ \A d \in DOMAIN documentsTable :
          documentsTable[d].client_id \in clientsTable \cup {NullClient}

\* c1 has been deleted with a payment and a document of its own; a payment
\* of c2 is still there
C22_Witness ==
    /\ "c1" \notin clientsTable
    /\ nextPaymentId = 3
    /\ nextDocumentId = 2
    /\ documentsTable = <<>>
    /\ DOMAIN paymentsTable = {2}
    /\ paymentsTable[2].client_id = "c2"

C26_LoadEndsLoading == loadCalls = <<>> => ~loading

\* C27: the answer of a loadClientData call never sets the lists once the
\* answer of a call made after it has set them.
C27_NewestLoadWins ==
    [][\A k \in 1..Len(loadCalls) :
          (loadClientData_then(k) /\ loadCalls[k].ok) => ~loadCalls[k].superseded]_vars

\* C28: the payment form never holds a chosen file and a chosen existing
\* document at once, and a payment saved while a file is chosen refers to
\* the document row made for that file.
C28_FileOrDocument ==
    [][/\ ~(invoiceFile' # NoFile /\ paymentForm'.invoice_document_id # NoDocument)
       /\ (handleAddPayment /\ invoiceFile # NoFile /\ ~paymentDialogOpen')
             => LET saved == IF editingPayment # NoPayment THEN editingPayment
                             ELSE nextPaymentId
                IN  /\ saved \in DOMAIN paymentsTable'
                    /\ nextDocumentId \in DOMAIN documentsTable' \ DOMAIN documentsTable
                    /\ paymentsTable'[saved].invoice_document_id = nextDocumentId]_vars

\* a payment has been saved with a file chosen: it refers to a document
\* that the document list, not yet loaded again, does not show
C28_Witness ==
    /\ ~paymentDialogOpen
    /\ invoiceFile = NoFile
    /\ documents = {}
    /\ \E i \in DOMAIN paymentsTable :
          /\ paymentsTable[i].invoice_document_id # NoDocument
          /\ paymentsTable[i].invoice_document_id \in DOMAIN documentsTable

EntryValue(name) ==
    LET D == chartData.statusDistribution
    IN  IF \E i \in 1..Len(D) : D[i].name = name
        THEN D[CHOOSE i \in 1..Len(D) : D[i].name = name].value
        ELSE 0

\* the sum of the revenues of all buckets of a monthly map
RECURSIVE RevenueSum(_)
RevenueSum(monthlyMap) ==
    IF monthlyMap = <<>> THEN 0
    ELSE RevenueSum(SubSeq(monthlyMap, 1, Len(monthlyMap) - 1))
         + monthlyMap[Len(monthlyMap)].value.revenue

\* the paid payments of the snapshot without a paid_date
PaidUndated ==
    {i \in 1..Len(Snapshot) :
        Snapshot[i].status = "paid" /\ Snapshot[i].paid_date = NullDate}

C24_NeverEditing ==
    /\ editingInvoice = NoInvoice
    /\ ~submit.editing

\* an invoice is stored and shown with its Edit button, the dialog closed
C24_Witness ==
    /\ invoicesTable # <<>>
    /\ ~dialogOpen
    /\ submit.pc = "idle"
    /\ editingInvoice = NoInvoice

\* C25: the item list of the invoice form is never empty.
C25_ItemsNeverEmpty == Len(items) >= 1

\* the last item but one has been removed: the list holds one item and
\* removeItem leaves it there
C25_Witness ==
    /\ dialogOpen
    /\ Len(items) = 1
    /\ items[1] # blankItem

====
